---- MODULE Spec2Model ----
(***************************************************************************)
(* Model of the pipeline scripts of sre-cicd-pipeline:                     *)
(*   scripts/slo-check.py, scripts/evaluate-security.py,                   *)
(*   scripts/smoke-tests.py and scripts/performance-test.py.               *)
(* One run of the model is one process running one script: Init picks the  *)
(* script and its inputs (arguments, files on disk, the environment's      *)
(* behaviour), the actions are the script's steps in program order.        *)
(*                                                                         *)
(* Units: availability is in hundredths of a percent (99.5% = 9950),       *)
(* latency in milliseconds, durations in seconds.                          *)
(***************************************************************************)
EXTENDS Integers, Sequences, FiniteSets

VARIABLES
    script,               \* which script this process runs
    pc,                   \* position of the process in the script
    output,               \* lines printed so far
    exitCode,             \* the exit status of the process: {} while it
                          \* runs, {0} or {1} once it has exited
    success,              \* `success` of __main__ (slo-check, smoke-tests)
    \* ---- slo-check.py
    availability_target,  \* --availability-target
    latency_target,       \* --latency-target
    window,               \* --window, as a duration in seconds
    current_availability, \* local of check_slo
    current_latency,      \* local of check_slo
    samplerCalls,         \* number of times the metrics were sampled
    verdicts,             \* the slo_met values computed, in order
    cancelRequested,      \* external cancellation signal
    callsAtCancel,        \* samplerCalls when the signal was raised
    \* ---- evaluate-security.py
    safety_report,        \* app/safety-report.json on disk
    bandit_report,        \* app/bandit-report.json on disk
    critical_issues,      \* local of evaluate_security_results
    \* ---- smoke-tests.py
    environment,          \* --environment
    endpointUp,           \* whether each endpoint of the service answers
    passed,               \* local of run_smoke_tests
    total,                \* local of run_smoke_tests
    testIdx,              \* position of the for loop over tests
    \* ---- performance-test.py
    duration,             \* --duration
    i,                    \* loop variable of run_performance_test
    latency               \* latencies drawn by run_performance_test, in order

vars == <<script, pc, output, exitCode, success,
          availability_target, latency_target, window, current_availability,
          current_latency, samplerCalls, verdicts, cancelRequested,
          callsAtCancel,
          safety_report, bandit_report, critical_issues,
          environment, endpointUp, passed, total, testIdx,
          duration, i, latency>>

sloVars == <<availability_target, latency_target, window,
             current_availability, current_latency, samplerCalls, verdicts,
             cancelRequested, callsAtCancel>>
secVars == <<safety_report, bandit_report, critical_issues>>
smokeVars == <<environment, endpointUp, passed, total, testIdx>>
perfVars == <<duration, i, latency>>

----------------------------------------------------------------------------
(* Bounds of the model *)

\* samples are drawn within this distance of the target, and at the ends
\* of the range random.uniform draws from
Slack == 1
\* longest --window, in seconds
MaxWindow == 12
\* most entries in one scan report
MaxFindings == 2
\* longest --duration, in seconds
MaxDuration == 25

(* Constants of the program *)

AvailLow == 9950        \* random.uniform(99.5, ...)
AvailHigh == 9999       \* random.uniform(..., 99.99)
LatLow == 100           \* random.uniform(100, ...)
LatHigh == 300          \* random.uniform(..., 300)
SloSleepSeconds == 5    \* time.sleep(5)
PerfLatLow == 50        \* random.uniform(50, ...)
PerfLatHigh == 200      \* random.uniform(..., 200)
PerfInterval == 10      \* range(duration // 10), time.sleep(10)

----------------------------------------------------------------------------
(* Helpers *)

Range(s) == {s[k] : k \in 1..Len(s)}

SeqsUpTo(S, n) == UNION {[1..k -> S] : k \in 0..n}

Line(msg, about) == [msg |-> msg, about |-> about]

Max(a, b) == IF a >= b THEN a ELSE b

\* ceil(a / b) for a >= 0, b > 0
CeilDiv(a, b) == (a + b - 1) \div b

----------------------------------------------------------------------------
(* slo-check.py *)

AvailabilityTargets == {9900, 9990, 10000}
LatencyTargets == {100, 200, 300}
Windows == 1..MaxWindow

\* the values random.uniform(99.5, 99.99) can return that the model draws
AvailabilitySamples(target) ==
    {AvailLow, AvailHigh} \cup
    {a \in (target - Slack)..(target + Slack) : a >= AvailLow /\ a <= AvailHigh}

\* the values random.uniform(100, 300) can return that the model draws
LatencySamples(target) ==
    {LatLow, LatHigh} \cup
    {l \in (target - Slack)..(target + Slack) : l >= LatLow /\ l <= LatHigh}

slo_met_StrictMutant(availability, lat, availTarget, latTarget) ==
    availability > availTarget /\ lat <= latTarget

\* slo_met of check_slo
slo_met(availability, lat, availTarget, latTarget) ==
    availability >= availTarget /\ lat <= latTarget

SloExitCode_AlwaysZeroMutant(ok) == {0}

\* __main__ of slo-check.py: exit(1) if not success, else the script ends
SloExitCode(ok) == IF ok THEN {0} ELSE {1}

\* the verdict the return value of check_slo stands for
Verdict(ok) == IF ok THEN "Pass" ELSE "Fail"

\* check_slo, lines 7-10: the header
SloPrintHeader ==
    /\ script = "slo" /\ pc = "start"
    /\ output' = output \o <<Line("checking", ""), Line("window", ""),
                             Line("availability_target", ""),
                             Line("latency_target", "")>>
    /\ pc' = "sleep"
    /\ UNCHANGED <<script, exitCode, success, sloVars, secVars, smokeVars,
                   perfVars>>

\* check_slo, line 13: time.sleep(5)
SloSleep ==
    /\ script = "slo" /\ pc = "sleep"
    /\ pc' = "sample"
    /\ UNCHANGED <<script, output, exitCode, success, sloVars, secVars,
                   smokeVars, perfVars>>

\* check_slo, lines 14-15: the one sample of the run
SloSample ==
    /\ script = "slo" /\ pc = "sample"
    /\ \E a \in AvailabilitySamples(availability_target),
          l \in LatencySamples(latency_target) :
          /\ current_availability' = a
          /\ current_latency' = l
    /\ samplerCalls' = samplerCalls + 1
    /\ pc' = "evaluate"
    /\ UNCHANGED <<script, output, exitCode, success, availability_target,
                   latency_target, window, verdicts, cancelRequested,
                   callsAtCancel, secVars, smokeVars, perfVars>>

\* check_slo, lines 17-29: print the metrics, compare, print, return
SloEvaluate ==
    /\ script = "slo" /\ pc = "evaluate"
    /\ LET met == slo_met(current_availability, current_latency,
                          availability_target, latency_target)
       IN /\ verdicts' = Append(verdicts, met)
          /\ success' = met
          /\ output' = output \o
                <<Line("current_metrics", ""), Line("availability", ""),
                  Line("average_latency", ""),
                  IF met THEN Line("all_slos_met", "")
                         ELSE Line("slo_violation_detected", "")>>
    /\ pc' = "main"
    /\ UNCHANGED <<script, exitCode, availability_target, latency_target,
                   window, current_availability, current_latency,
                   samplerCalls, cancelRequested, callsAtCancel, secVars,
                   smokeVars, perfVars>>

\* __main__ of slo-check.py, lines 42-43
SloExit ==
    /\ script = "slo" /\ pc = "main"
    /\ exitCode' = SloExitCode(success)
    /\ pc' = "done"
    /\ UNCHANGED <<script, output, success, sloVars, secVars, smokeVars,
                   perfVars>>

\* The environment raises the cancellation signal while check_slo runs.
\* check_slo has no statement that reads it.
Cancel ==
    /\ script = "slo" /\ pc \in {"start", "sleep", "sample", "evaluate"}
    /\ ~cancelRequested
    /\ cancelRequested' = TRUE
    /\ callsAtCancel' = samplerCalls
    /\ UNCHANGED <<script, pc, output, exitCode, success,
                   availability_target, latency_target, window,
                   current_availability, current_latency, samplerCalls,
                   verdicts, secVars, smokeVars, perfVars>>

----------------------------------------------------------------------------
(* evaluate-security.py *)

Severities == {"LOW", "MEDIUM", "HIGH", "CRITICAL"}
SeverityRank == [s \in Severities |->
    CASE s = "LOW" -> 1 [] s = "MEDIUM" -> 2 [] s = "HIGH" -> 3
      [] s = "CRITICAL" -> 4]

\* the severity the Bandit filter compares with
SeverityFloor == "HIGH"

\* what an entry of the Safety report says; str(v).lower() maps the first
\* to "vulnerability", which the filter looks for
Words == {"Vulnerability", "advisory"}
Lower == [w \in Words |->
    IF w = "Vulnerability" THEN "vulnerability" ELSE "advisory"]

SafetyEntries == [severity : Severities, word : Words]
\* an entry of Bandit's results: a JSON object with its issue_severity, or
\* a JSON value that is no object
BanditEntries == [dict : {TRUE}, issue_severity : Severities] \cup
                 {[dict |-> FALSE, issue_severity |-> "LOW"]}

\* app/safety-report.json: absent; present but open() fails; not JSON;
\* a JSON object; a JSON list of entries
SafetyReports ==
    [kind : {"missing", "unreadable", "malformed", "object"},
     entries : {<<>>}] \cup
    [kind : {"list"}, entries : SeqsUpTo(SafetyEntries, MaxFindings)]

\* app/bandit-report.json: absent; present but open() fails; not JSON;
\* JSON without "results"; JSON with a "results" list
BanditReports ==
    [kind : {"missing", "unreadable", "malformed", "noresults"},
     entries : {<<>>}] \cup
    [kind : {"results"}, entries : SeqsUpTo(BanditEntries, MaxFindings)]

\* 'vulnerability' in str(v).lower()
MentionsVulnerability(v) == Lower[v.word] = "vulnerability"

\* os.path.exists(path) holds and open(path) raises: the with statement is
\* outside the try
OpenFails(report) == report.kind = "unreadable"

SafetyIssues_MalformedCountsMutant(report) ==
    IF report.kind = "list"
    THEN Cardinality({k \in 1..Len(report.entries) :
                        MentionsVulnerability(report.entries[k])})
    ELSE IF report.kind \in {"missing", "malformed"} THEN 1 ELSE 0

\* what lines 11-18 add to critical_issues
SafetyIssues(report) ==
    IF report.kind = "list"
    THEN Cardinality({k \in 1..Len(report.entries) :
                        MentionsVulnerability(report.entries[k])})
    ELSE 0

\* what lines 21-29 add to critical_issues: r.get raises on an entry that
\* is no object, and the bare except drops the whole report
BanditIssues(report) ==
    IF /\ report.kind = "results"
       /\ \A k \in 1..Len(report.entries) : report.entries[k].dict
    THEN Cardinality({k \in 1..Len(report.entries) :
                        report.entries[k].issue_severity = "HIGH"})
    ELSE 0

\* an uncaught exception ends the process with a traceback and status 1
SecCrash ==
    /\ pc' = "crashed"
    /\ exitCode' = {1}
    /\ output' = Append(output, Line("traceback", ""))
    /\ UNCHANGED critical_issues

\* evaluate_security_results, lines 8-18
SecSafety ==
    /\ script = "security" /\ pc = "start"
    /\ IF OpenFails(safety_report)
       THEN SecCrash
       ELSE /\ critical_issues' = 0 + SafetyIssues(safety_report)
            /\ pc' = "bandit"
            /\ UNCHANGED <<output, exitCode>>
    /\ UNCHANGED <<script, success, safety_report, bandit_report, sloVars,
                   smokeVars, perfVars>>

\* evaluate_security_results, lines 20-29
SecBandit ==
    /\ script = "security" /\ pc = "bandit"
    /\ IF OpenFails(bandit_report)
       THEN SecCrash
       ELSE /\ critical_issues' = critical_issues + BanditIssues(bandit_report)
            /\ pc' = "report"
            /\ UNCHANGED <<output, exitCode>>
    /\ UNCHANGED <<script, success, safety_report, bandit_report, sloVars,
                   smokeVars, perfVars>>

\* evaluate_security_results, lines 31-38
SecReport ==
    /\ script = "security" /\ pc = "report"
    /\ IF critical_issues > 0
       THEN /\ output' = output \o <<Line("found", ""),
                                    Line("security_scan_failed", "")>>
            /\ exitCode' = {1}
       ELSE /\ output' = output \o <<Line("found", ""),
                                    Line("security_scan_passed", "")>>
            /\ exitCode' = {0}
    /\ pc' = "done"
    /\ UNCHANGED <<script, success, secVars, sloVars, smokeVars, perfVars>>

----------------------------------------------------------------------------
(* smoke-tests.py *)

Environments == {"staging", "production"}

\* tests of run_smoke_tests
tests == <<[name |-> "Health Check", endpoint |-> "/health"],
           [name |-> "API Data", endpoint |-> "/api/data"]>>

Endpoints == {tests[k].endpoint : k \in 1..Len(tests)}

PassedIncrement_ProbeMutant(test, up) == IF up[test.endpoint] THEN 1 ELSE 0

\* line 19, passed += 1: the loop body sends no request to the endpoint and
\* counts every test
PassedIncrement(test, up) == 1

\* __main__ of smoke-tests.py: sys.exit(0 if success else 1)
SmokeExitCode(ok) == IF ok THEN {0} ELSE {1}

\* run_smoke_tests, lines 8-14
SmokeStart ==
    /\ script = "smoke" /\ pc = "start"
    /\ output' = Append(output, Line("running_smoke_tests", ""))
    /\ passed' = 0
    /\ total' = Len(tests)
    /\ testIdx' = 1
    /\ pc' = "loop"
    /\ UNCHANGED <<script, exitCode, success, environment, endpointUp,
                   sloVars, secVars, perfVars>>

\* run_smoke_tests, lines 15-19: one iteration of the loop
SmokeTest ==
    /\ script = "smoke" /\ pc = "loop" /\ testIdx <= Len(tests)
    /\ output' = output \o <<Line("testing", tests[testIdx].name),
                             Line("test_passed", tests[testIdx].name)>>
    /\ passed' = passed + PassedIncrement(tests[testIdx], endpointUp)
    /\ testIdx' = testIdx + 1
    /\ UNCHANGED <<script, pc, exitCode, success, environment, endpointUp,
                   total, sloVars, secVars, perfVars>>

\* run_smoke_tests, lines 20-26
SmokeReport ==
    /\ script = "smoke" /\ pc = "loop" /\ testIdx > Len(tests)
    /\ IF passed = total
       THEN /\ output' = output \o <<Line("results", ""),
                                    Line("all_smoke_tests_passed", "")>>
            /\ success' = TRUE
       ELSE /\ output' = output \o <<Line("results", ""),
                                    Line("some_smoke_tests_failed", "")>>
            /\ success' = FALSE
    /\ pc' = "main"
    /\ UNCHANGED <<script, exitCode, smokeVars, sloVars, secVars, perfVars>>

\* __main__ of smoke-tests.py, line 33
SmokeExit ==
    /\ script = "smoke" /\ pc = "main"
    /\ exitCode' = SmokeExitCode(success)
    /\ pc' = "done"
    /\ UNCHANGED <<script, output, success, smokeVars, sloVars, secVars,
                   perfVars>>

----------------------------------------------------------------------------
(* performance-test.py *)

Durations == 0..MaxDuration

\* range(duration // 10)
PerfIterations(d) == d \div PerfInterval

\* run_performance_test, line 7
PerfStart ==
    /\ script = "perf" /\ pc = "start"
    /\ output' = Append(output, Line("running_performance_test", ""))
    /\ i' = 0
    /\ pc' = "loop"
    /\ UNCHANGED <<script, exitCode, success, duration, latency, sloVars,
                   secVars, smokeVars>>

\* run_performance_test, lines 8-11: one iteration of the loop
PerfIteration ==
    /\ script = "perf" /\ pc = "loop" /\ i < PerfIterations(duration)
    /\ \E l \in {PerfLatLow, PerfLatHigh} : latency' = Append(latency, l)
    /\ output' = Append(output, Line("average_latency", ""))
    /\ i' = i + 1
    /\ UNCHANGED <<script, pc, exitCode, success, duration, sloVars, secVars,
                   smokeVars>>

\* run_performance_test, lines 12-13, and the end of the script
PerfFinish ==
    /\ script = "perf" /\ pc = "loop" /\ i >= PerfIterations(duration)
    /\ output' = Append(output, Line("performance_test_completed", ""))
    /\ exitCode' = {0}
    /\ pc' = "done"
    /\ UNCHANGED <<script, success, perfVars, sloVars, secVars, smokeVars>>

----------------------------------------------------------------------------
(* The process *)

Scripts == {"slo", "security", "smoke", "perf"}

Init ==
    /\ script \in Scripts
    /\ pc = "start"
    /\ output = <<>>
    /\ exitCode = {}
    /\ success = FALSE
    /\ IF script = "slo"
       THEN /\ availability_target \in AvailabilityTargets
            /\ latency_target \in LatencyTargets
            /\ window \in Windows
       ELSE /\ availability_target = 9990
            /\ latency_target = 200
            /\ window = 1
    /\ current_availability = 0
    /\ current_latency = 0
    /\ samplerCalls = 0
    /\ verdicts = <<>>
    /\ cancelRequested = FALSE
    /\ callsAtCancel = 0
    /\ IF script = "security"
       THEN /\ safety_report \in SafetyReports
            /\ bandit_report \in BanditReports
       ELSE /\ safety_report = [kind |-> "missing", entries |-> <<>>]
            /\ bandit_report = [kind |-> "missing", entries |-> <<>>]
    /\ critical_issues = 0
    /\ IF script = "smoke"
       THEN /\ environment \in Environments
            /\ endpointUp \in [Endpoints -> BOOLEAN]
       ELSE /\ environment = "staging"
            /\ endpointUp = [e \in Endpoints |-> TRUE]
    /\ passed = 0
    /\ total = 0
    /\ testIdx = 0
    /\ IF script = "perf"
       THEN duration \in Durations
       ELSE duration = 0
    /\ i = 0
    /\ latency = <<>>

Next ==
    \/ SloPrintHeader
    \/ SloSleep
    \/ SloSample
    \/ SloEvaluate
    \/ SloExit
    \/ Cancel
    \/ SecSafety
    \/ SecBandit
    \/ SecReport
    \/ SmokeStart
    \/ SmokeTest
    \/ SmokeReport
    \/ SmokeExit
    \/ PerfStart
    \/ PerfIteration
    \/ PerfFinish

Spec == Init /\ [][Next]_vars

----------------------------------------------------------------------------
(* Properties of slo-check.py *)

SloReturned == script = "slo" /\ pc \in {"main", "done"}

\* C1: check_slo returns True if and only if the sampled availability is at
\* least the availability target and the sampled latency is at most the
\* latency target; both bounds are inclusive.
C1_PassIffBothTargetsMet ==
    SloReturned =>
        (success <=> (/\ ~(current_availability < availability_target)
                      /\ ~(current_latency > latency_target)))

\* C1, its case: a sample exactly at both targets has passed.
C1_Witness ==
    /\ SloReturned
    /\ current_availability = availability_target
    /\ current_latency = latency_target
    /\ success

\* C2: the process of slo-check.py exits with 0 exactly when the verdict is
\* Pass and with 1 exactly when it is Fail, and not before there is one.
C2_ExitCodeMatchesVerdict ==
    script = "slo" =>
        IF pc = "done"
        THEN /\ Len(verdicts) > 0
             /\ exitCode = {0} <=> verdicts[Len(verdicts)]
             /\ exitCode = {1} <=> ~verdicts[Len(verdicts)]
        ELSE exitCode = {}

\* C2, its case: a run that ended with exit code 1 after a violated SLO.
C2_Witness ==
    /\ script = "slo" /\ pc = "done"
    /\ current_latency > latency_target
    /\ exitCode = {1}

\* the sample count of a window: ceil(window / interval), at least 1
SampleCount(windowSeconds, interval) == Max(1, CeilDiv(windowSeconds, interval))

\* C6: a run without cancellation takes exactly ceil(window / interval)
\* samples, at least 1: the performance test over --duration with its
\* interval of 10 s, the SLO check over --window with its interval of 5 s.
C6_Claim ==
    /\ (script = "perf" /\ pc = "done") =>
           Len(latency) = SampleCount(duration, PerfInterval)
    /\ (SloReturned /\ ~cancelRequested) =>
           samplerCalls = SampleCount(window, SloSleepSeconds)

\* C7: there is one verdict per sample of the window, N in all, and the
\* aggregate verdict is Pass if and only if each of them is Pass.
C7_Claim ==
    (SloReturned /\ ~cancelRequested) =>
        /\ Len(verdicts) = SampleCount(window, SloSleepSeconds)
        /\ success <=> \A k \in 1..Len(verdicts) : verdicts[k]

Criteria == {"availability", "latency"}

\* the criteria the printed result names as violated
ListedCriteria == {c \in Criteria : Line("violated", c) \in Range(output)}

ViolatedCriteria ==
    {c \in Criteria :
        \/ c = "availability" /\ current_availability < availability_target
        \/ c = "latency" /\ current_latency > latency_target}

\* C8: when the SLO evaluation fails, its result lists exactly the violated
\* criteria.
C8_Claim ==
    (SloReturned /\ ~success) => ListedCriteria = ViolatedCriteria

\* C9: once the cancellation signal is set, no further sample is taken and
\* the run returns Cancelled, neither Pass nor Fail.
C9_Claim ==
    (SloReturned /\ cancelRequested) =>
        /\ samplerCalls = callsAtCancel
        /\ Verdict(success) = "Cancelled"

----------------------------------------------------------------------------
(* Properties of evaluate-security.py *)

AtOrAboveFloor(sev) == SeverityRank[sev] >= SeverityRank[SeverityFloor]

\* the findings of both sources at or above the severity floor
CountedFindings ==
    Cardinality({k \in 1..Len(safety_report.entries) :
                    AtOrAboveFloor(safety_report.entries[k].severity)})
    + Cardinality({k \in 1..Len(bandit_report.entries) :
                    /\ bandit_report.entries[k].dict
                    /\ AtOrAboveFloor(bandit_report.entries[k].issue_severity)})

\* C3: the gate counts the findings of both sources whose severity is at or
\* above the floor, and fails (exit code 1) if and only if the count is
\* greater than 0.
C3_Claim ==
    (script = "security" /\ pc = "done") =>
        /\ critical_issues = CountedFindings
        /\ exitCode = {1} <=> CountedFindings > 0
        /\ exitCode = {0} <=> CountedFindings = 0

NoArtifact(report) == report.kind \in {"missing", "malformed"}

CleanSafety == [kind |-> "list", entries |-> <<>>]
CleanBandit == [kind |-> "results", entries |-> <<>>]

\* the count and exit code of a run in which both artifacts can be opened
CountOf(safety, bandit) == SafetyIssues(safety) + BanditIssues(bandit)

\* C4: a missing or malformed artifact of one source adds nothing to the
\* count and is not fatal: the run ends with the count and the verdict it
\* would have with that artifact present and clean.
C4_MissingOrMalformedCountsZero ==
    script = "security" =>
        /\ pc = "crashed" =>
               OpenFails(safety_report) \/ OpenFails(bandit_report)
        /\ (pc = "bandit" /\ NoArtifact(safety_report)) => critical_issues = 0
        /\ (pc \in {"report", "done"} /\ NoArtifact(safety_report)) =>
               critical_issues = CountOf(CleanSafety, bandit_report)
        /\ (pc \in {"report", "done"} /\ NoArtifact(bandit_report)) =>
               critical_issues = CountOf(safety_report, CleanBandit)
        /\ pc = "done" =>
               /\ exitCode \in {{0}, {1}}
               /\ exitCode = {1} <=> critical_issues > 0

\* C4, its case: the Safety report is not JSON, the Bandit report has one
\* HIGH result, and the run has ended with count 1 and exit code 1.
C4_Witness ==
    /\ script = "security" /\ pc = "done"
    /\ safety_report.kind = "malformed"
    /\ bandit_report.kind = "results"
    /\ critical_issues = 1
    /\ exitCode = {1}

Sources == {"dependency-scan", "static-analysis"}
Artifact(src) ==
    IF src = "dependency-scan" THEN safety_report ELSE bandit_report

Warnings == {k \in 1..Len(output) :
                output[k].msg \in {"warning_missing", "warning_malformed"}}

\* C5: every missing artifact and every malformed artifact leaves a warning
\* of its own kind in the result; a missing dependency scan with a clean
\* static analysis gives Pass with exactly one warning.
C5_Claim ==
    (script = "security" /\ pc = "done") =>
        /\ \A src \in Sources :
              /\ Artifact(src).kind = "missing" =>
                     Line("warning_missing", src) \in Range(output)
              /\ Artifact(src).kind = "malformed" =>
                     Line("warning_malformed", src) \in Range(output)
        /\ (safety_report.kind = "missing" /\ bandit_report = CleanBandit) =>
               exitCode = {0} /\ Cardinality(Warnings) = 1

----------------------------------------------------------------------------
(* Properties of smoke-tests.py *)

\* C10: in run_smoke_tests passed never exceeds total and equals total when
\* the loop ends, so the function returns True, the failure branch is never
\* taken and the process exits with code 0, whatever the endpoints do.
C10_SmokeTestsAlwaysPass ==
    script = "smoke" =>
        /\ pc # "start" => passed <= total
        /\ (pc = "loop" /\ testIdx > Len(tests)) => passed = total
        /\ pc \in {"main", "done"} => passed = total /\ success
        /\ Line("some_smoke_tests_failed", "") \notin Range(output)
        /\ pc = "done" => exitCode = {0}

\* C10, its case: the run has ended with exit code 0 although no endpoint
\* of the environment answers.
C10_Witness ==
    /\ script = "smoke" /\ pc = "done"
    /\ \A e \in Endpoints : ~endpointUp[e]
    /\ passed = total /\ total = Len(tests)
    /\ exitCode = {0}

====
